---- MODULE Spec2Model ----
(***************************************************************************)
(* A model of the tree-sitter based TRAP extractor                         *)
(* (src/extractor/src/extractor.rs): Extractor::extract, the cursor walk   *)
(* of traverse, and the Visitor callbacks enter_node, leave_node,          *)
(* complex_node and type_matches.                                          *)
(*                                                                         *)
(* The parser is external.  A parse tree is a sequence of nodes numbered   *)
(* in document (pre-)order; node 1 is the root.  Each node records its     *)
(* parent, its kind, whether it is named, its parser status (ok, error,    *)
(* missing, extra) and the field name under which its parent holds it.     *)
(***************************************************************************)
EXTENDS Integers, Sequences, FiniteSets, TLC

\* Bounds of the model.
MaxNodes == 3
MaxExtracts == 3
MaxTypes == 4
MaxNameLen == 2

\* Option<T>: None is the empty tuple, Some(x) the one-element tuple.
None == <<>>
Some(x) == <<x>>

\* The element of a set of one element. The({e(x) : x \in {d}}) is e with x
\* bound to the value of d: one statement after another.
The(S) == CHOOSE x \in S : TRUE

Max(S) == CHOOSE x \in S : \A y \in S : y <= x
Min(S) == CHOOSE x \in S : \A y \in S : x <= y

(***************************************************************************)
(* nodes_types: TypeName, Entry, Field, Storage                            *)
(***************************************************************************)
TypeName(kind, named) == [kind |-> kind, named |-> named]

Column == [tag |-> "Column"]
StorageTable(parent, index) == [tag |-> "Table", parent |-> parent, index |-> index]
Field(name, types, storage) == [name |-> name, types |-> types, storage |-> storage]
EntryTable(type_name, fields) == [tag |-> "Table", type_name |-> type_name, fields |-> fields]
EntryUnion(type_name, members) == [tag |-> "Union", type_name |-> type_name, members |-> members]

\* The node kinds of the modelled grammar.
TLeaf == TypeName("a", TRUE)          \* a table with no fields
TPair == TypeName("p", TRUE)          \* a table with fields
TTok == TypeName("+", FALSE)          \* an anonymous token, a table with no fields
TUnknown == TypeName("u", TRUE)       \* a kind the schema has no table for
TExpr == TypeName("_expr", TRUE)      \* a union: {a, _sub}
TSub == TypeName("_sub", TRUE)        \* a union: {p}

FieldNames == {None, Some("f")}

\* The fields the table of p may declare.  The field f takes a leaf; the
\* unnamed field takes an _expr, that is a leaf or (through _sub) a p.
ColumnF == Field(Some("f"), {TLeaf}, Column)
ColumnU == Field(None, {TExpr}, Column)
TableF == Field(Some("f"), {TLeaf}, StorageTable(TPair, 0))
TableU == Field(None, {TExpr}, StorageTable(TPair, 1))

FieldLists ==
    { <<ColumnF, TableU>>,      \* a column and a table
      <<ColumnU, ColumnF>>,     \* two columns
      <<TableF, TableU>>,       \* two tables
      <<ColumnU>>,              \* no field f
      <<TableF>> }              \* no unnamed field

SchemaOf(fields) ==
    << EntryTable(TLeaf, <<>>),
       EntryUnion(TExpr, {TLeaf, TSub}),
       EntryTable(TTok, <<>>),
       EntryTable(TPair, fields),
       EntryUnion(TSub, {TPair}) >>

Schemas == {SchemaOf(fs) : fs \in FieldLists}

(***************************************************************************)
(* Parse trees (the parser's output)                                       *)
(***************************************************************************)
NodeRec(parent, tn, status, field) ==
    [parent |-> parent, kind |-> tn.kind, named |-> tn.named,
     status |-> status, field |-> field]

\* What a node can be, apart from its place in the tree: its type, its status
\* and the field its parent holds it in.
Shape(tn, status, field) == [tn |-> tn, status |-> status, field |-> field]
SkipShapes == {Shape(TypeName("ERROR", TRUE), "error", None),
               Shape(TypeName(";", FALSE), "missing", None),
               Shape(TypeName("comment", TRUE), "extra", None)}
RootShapes == {Shape(tn, "ok", None) : tn \in {TLeaf, TPair, TUnknown}} \cup SkipShapes
ChildShapes ==
    {Shape(tn, "ok", f) : tn \in {TLeaf, TTok}, f \in FieldNames}
    \cup {Shape(TPair, "ok", None), Shape(TUnknown, "ok", None)}
    \cup SkipShapes

\* Smaller families, for runs that vary something else as well: the source
\* bytes, or the calls of extract.
NarrowRootShapes == {Shape(tn, "ok", None) : tn \in {TLeaf, TPair}}
NarrowChildShapes == {Shape(TLeaf, "ok", None), Shape(TypeName("ERROR", TRUE), "error", None)}
PlainChildShapes == {Shape(TLeaf, "ok", None)}
WalkChildShapes == {Shape(TLeaf, "ok", None), Shape(TPair, "ok", None)} \cup SkipShapes

RECURSIVE IsAncestorOrSelf(_, _, _)
IsAncestorOrSelf(par, a, j) ==
    IF j = 0 THEN FALSE
    ELSE IF j = a THEN TRUE
    ELSE IsAncestorOrSelf(par, a, par[j])

\* Parent vectors of the ordered trees with n nodes, numbered in pre-order.
ParentVectors(n) ==
    {par \in [1..n -> 0..(n - 1)] :
        /\ par[1] = 0
        /\ \A i \in 2..n : par[i] \in 1..(i - 1) /\ IsAncestorOrSelf(par, par[i], i - 1)}

\* The tree with parent vector par, root shape r and the other nodes' shapes rest.
MakeTree(n, par, r, rest) ==
    [i \in 1..n |-> IF i = 1 THEN NodeRec(0, r.tn, r.status, r.field)
                    ELSE NodeRec(par[i], rest[i].tn, rest[i].status, rest[i].field)]

\* A missing node is a token the parser made up: it has no children.
WellFormed(t) == \A i \in 1..Len(t) : t[i].parent # 0 => t[t[i].parent].status # "missing"

(***************************************************************************)
(* The parser's Node and TreeCursor interface                              *)
(***************************************************************************)
is_error(n) == n.status = "error"
is_missing(n) == n.status = "missing"
is_extra(n) == n.status = "extra"

Children(t, i) == {j \in 1..Len(t) : t[j].parent = i}
Descendants(t, i) == {j \in 1..Len(t) : IsAncestorOrSelf([k \in 1..Len(t) |-> t[k].parent], i, j)}

\* The cursor moves return the node reached, 0 when the move fails.
goto_first_child(t, c) == IF Children(t, c) = {} THEN 0 ELSE Min(Children(t, c))
goto_next_sibling(t, c) ==
    LET later == {j \in Children(t, t[c].parent) : j > c}
    IN IF t[c].parent = 0 \/ later = {} THEN 0 ELSE Min(later)
goto_parent(t, c) == t[c].parent
field_name(t, c) == t[c].field

\* Every node holds one byte of its own, followed by its children: the source
\* is one line, so a column is a byte offset.
start_byte(t, i) == i - 1
end_byte(t, i) == Max(Descendants(t, i))
start_position(t, i) == [row |-> 0, column |-> start_byte(t, i)]
end_position(t, i) == [row |-> 0, column |-> end_byte(t, i)]

NodeType(n) == TypeName(n.kind, n.named)

(***************************************************************************)
(* Fact model: Label, Arg, TrapEntry                                       *)
(***************************************************************************)
Normal(n) == [ns |-> "Normal", n |-> n]
Location(n) == [ns |-> "Location", n |-> n]

ArgLabel(l) == [k |-> "Label", v |-> l]
ArgInt(n) == [k |-> "Int", v |-> n]
ArgString(s) == [k |-> "String", v |-> s]

New(id) == [tag |-> "New", id |-> id]
Definition(name, id, args, loc) ==
    [tag |-> "Definition", name |-> name, id |-> id, args |-> args, loc |-> loc]
ChildOf(pname, id, fname, idx, p) ==
    [tag |-> "ChildOf", pname |-> pname, id |-> id, fname |-> fname, idx |-> idx, p |-> p]
Located(args) == [tag |-> "Located", args |-> args]
Comment(text) == [tag |-> "Comment", text |-> text]

node_type_name(kind, named) == IF named THEN kind ELSE kind \o "_unnamed"

location_for(fp, label, t, i) ==
    Located(<< ArgLabel(label), ArgString(fp),
               ArgInt(start_position(t, i).row), ArgInt(start_position(t, i).column),
               ArgInt(end_position(t, i).row), ArgInt(end_position(t, i).column) >>)

(***************************************************************************)
(* Source text                                                             *)
(***************************************************************************)
\* std::str::from_utf8 on the bytes the model uses: an ASCII byte stands alone, a
\* lead byte 0xC2..0xDF takes one continuation byte 0x80..0xBF, anything else
\* (a stray continuation byte, a lead byte at the end) is an error.
RECURSIVE ValidUtf8(_)
ValidUtf8(bs) ==
    IF bs = <<>> THEN TRUE
    ELSE IF bs[1] < 128 THEN ValidUtf8(Tail(bs))
    ELSE IF bs[1] \in 194..223
         THEN Len(bs) >= 2 /\ bs[2] \in 128..191 /\ ValidUtf8(Tail(Tail(bs)))
    ELSE FALSE

\* Not extract: every slice is the whole file.
WholeSource(src, t, i) == src

ByteRange(src, t, i) == SubSeq(src, start_byte(t, i) + 1, end_byte(t, i))

\* sliced_source_arg: Some(arg), or None where expect panics.
sliced_source_arg(src, t, i) ==
    IF ValidUtf8(ByteRange(src, t, i))
    THEN Some(ArgString(ByteRange(src, t, i)))
    ELSE None

(***************************************************************************)
(* Names                                                                   *)
(***************************************************************************)
RESERVED_KEYWORDS ==
    {"boolean", "case", "date", "float", "int", "key", "of", "order", "ref", "string",
     "subtype", "type", "unique", "varchar"}

\* char::to_lowercase, for the letters of ASCII.
UpperCase == "ABCDEFGHIJKLMNOPQRSTUVWXYZ"
LowerCase == "abcdefghijklmnopqrstuvwxyz"
to_lowercase(c) ==
    LET hits == {k \in 1..Len(UpperCase) : SubSeq(UpperCase, k, k) = c}
    IN IF hits = {} THEN c ELSE SubSeq(LowerCase, Max(hits), Max(hits))

\* The match of escape_name on one character (all its arms but the one of the
\* backtick, a character that a string of this language cannot hold).
EscapeChar(c) ==
    CASE c = "{" -> "lbrace"    [] c = "}" -> "rbrace"
      [] c = "<" -> "langle"    [] c = ">" -> "rangle"
      [] c = "[" -> "lbracket"  [] c = "]" -> "rbracket"
      [] c = "(" -> "lparen"    [] c = ")" -> "rparen"
      [] c = "|" -> "pipe"      [] c = "=" -> "equal"
      [] c = "~" -> "tilde"     [] c = "?" -> "question"
      [] c = "^" -> "caret"
      [] c = "!" -> "bang"      [] c = "#" -> "hash"
      [] c = "%" -> "percent"   [] c = "&" -> "ampersand"
      [] c = "." -> "dot"       [] c = "," -> "comma"
      [] c = "/" -> "slash"     [] c = ":" -> "colon"
      [] c = ";" -> "semicolon" [] c = "\"" -> "dquote"
      [] c = "*" -> "star"      [] c = "+" -> "plus"
      [] c = "-" -> "minus"     [] c = "@" -> "at"
      [] OTHER -> to_lowercase(c)

\* The loop of escape_name over name.chars().
RECURSIVE EscapeChars(_)
EscapeChars(name) ==
    IF name = "" THEN "" ELSE EscapeChar(Head(name)) \o EscapeChars(Tail(name))

escape_name(name) ==
    LET result == (IF name # "" /\ Head(name) = "_" THEN "underscore" ELSE "")
                  \o EscapeChars(name)
    IN IF result \in RESERVED_KEYWORDS THEN result \o "__" ELSE result

(***************************************************************************)
(* Display                                                                 *)
(***************************************************************************)
\* Label: #0, #1, ... and #0_loc, #1_loc, ...
LabelFmt(l) ==
    IF l.ns = "Normal" THEN "#" \o ToString(l.n) ELSE "#" \o ToString(l.n) \o "_loc"

IndexFmt(idx) == ToString(idx)

\* x.replace("\"", "\"\"")
RECURSIVE DoubleQuotes(_)
DoubleQuotes(x) ==
    IF x = "" THEN ""
    ELSE (IF Head(x) = "\"" THEN "\"\"" ELSE Head(x)) \o DoubleQuotes(Tail(x))

\* The text that from_utf8 gives for bytes it accepts. The sources of the model
\* hold the bytes of lower-case letters and two-byte sequences; the character of
\* a two-byte sequence is written by its code point.
RECURSIVE Utf8Text(_)
Utf8Text(bs) ==
    IF bs = <<>> THEN ""
    ELSE IF bs[1] \in 97..122
         THEN SubSeq(LowerCase, bs[1] - 96, bs[1] - 96) \o Utf8Text(Tail(bs))
    ELSE IF bs[1] < 128 THEN "?" \o Utf8Text(Tail(bs))
    ELSE "<U+" \o ToString((bs[1] - 192) * 64 + (bs[2] - 128)) \o ">"
         \o Utf8Text(Tail(Tail(bs)))

\* Arg. A String argument of a Located entry is the path.
ArgFmt(a) ==
    CASE a.k = "Label" -> LabelFmt(a.v)
      [] a.k = "Int" -> ToString(a.v)
      [] a.k = "String" -> "\"" \o DoubleQuotes(a.v) \o "\""

\* A String argument of a Definition entry is a slice of the source, which the
\* model keeps as the bytes that sliced_source_arg decoded.
SourceArgFmt(a) ==
    IF a.k = "String" THEN "\"" \o DoubleQuotes(Utf8Text(a.v)) \o "\"" ELSE ArgFmt(a)

RECURSIVE ArgsStr(_)
ArgsStr(args) ==
    IF args = <<>> THEN "" ELSE SourceArgFmt(Head(args)) \o ", " \o ArgsStr(Tail(args))

TrapEntryFmt(e) ==
    CASE e.tag = "New" -> LabelFmt(e.id) \o " = *"
      [] e.tag = "Definition" ->
             escape_name(e.name \o "_def") \o "(" \o LabelFmt(e.id) \o ", "
                 \o ArgsStr(e.args) \o LabelFmt(e.loc) \o ")"
      [] e.tag = "ChildOf" ->
             escape_name(e.pname \o "_" \o e.fname) \o "(" \o LabelFmt(e.id) \o ", "
                 \o IndexFmt(e.idx) \o ", " \o LabelFmt(e.p) \o ")"
      [] e.tag = "Located" ->
             "location(" \o ArgFmt(e.args[1]) \o ", " \o ArgFmt(e.args[2]) \o ", "
                 \o ArgFmt(e.args[3]) \o ", " \o ArgFmt(e.args[4]) \o ", "
                 \o ArgFmt(e.args[5]) \o ", " \o ArgFmt(e.args[6]) \o ")"
      [] e.tag = "Comment" -> "// " \o e.text

\* Program: the lines that fmt pushes to text, one for each entry.
ProgramLines(entries) == [k \in 1..Len(entries) |-> TrapEntryFmt(entries[k]) \o "\n"]

RECURSIVE Concat(_)
Concat(lines) == IF lines = <<>> THEN "" ELSE Head(lines) \o Concat(Tail(lines))

ProgramFmt(entries) == Concat(ProgramLines(entries))

(***************************************************************************)
(* Schema lookups                                                          *)
(***************************************************************************)
\* BTreeMap::insert in a loop: the last entry of a type name is the one kept.
LastIndex(schema, tag, tn) ==
    LET hits == {k \in 1..Len(schema) : schema[k].tag = tag /\ schema[k].type_name = tn}
    IN IF hits = {} THEN 0 ELSE Max(hits)

\* Not extract: a kind without a table is looked up as a table without fields.
LookupOrLeaf(schema, tn) ==
    IF LastIndex(schema, "Table", tn) = 0 THEN Some(EntryTable(tn, <<>>))
    ELSE Some(schema[LastIndex(schema, "Table", tn)])

\* tables.get(tn): Some(entry) or None.
build_schema_lookup(schema, tn) ==
    IF LastIndex(schema, "Table", tn) = 0 THEN None
    ELSE Some(schema[LastIndex(schema, "Table", tn)])

\* union_types.get(tn): Some(members) or None.
build_union_type_lookup(schema, tn) ==
    IF LastIndex(schema, "Union", tn) = 0 THEN None
    ELSE Some(schema[LastIndex(schema, "Union", tn)].members)

\* Not extract: the members of a union are looked at, the unions among them not.
type_matches_once(schema, tp, types) ==
    \/ tp \in types
    \/ \E other \in types :
          /\ build_union_type_lookup(schema, other) # None
          /\ tp \in build_union_type_lookup(schema, other)[1]

RECURSIVE type_matches(_, _, _)
type_matches(schema, tp, types) ==
    \/ tp \in types
    \/ \E other \in types :
          /\ build_union_type_lookup(schema, other) # None
          /\ type_matches(schema, tp, build_union_type_lookup(schema, other)[1])

(***************************************************************************)
(* Visitor                                                                 *)
(*                                                                         *)
(* The callbacks are operators on a visitor record v: trap_output,         *)
(* counter, stack, diag (the lines printed to standard output) and panic   *)
(* (the message of the expect that failed, "" while none has).             *)
(***************************************************************************)
Diag(msg, t, i, detail) ==
    [msg |-> msg, row |-> start_position(t, i).row, kind |-> t[i].kind, detail |-> detail]

Push(stk, x) == Append(stk, x)
Pop(stk) == SubSeq(stk, 1, Len(stk) - 1)
Last(stk) == stk[Len(stk)]

\* Not extract: a frame is pushed for an extra node as well.
enter_node_any(v, t, i) ==
    IF is_error(t[i])
    THEN [ret |-> FALSE, v |-> [v EXCEPT !.diag = Append(@, Diag("parse error", t, i, None))]]
    ELSE IF is_missing(t[i])
    THEN [ret |-> FALSE,
          v |-> [v EXCEPT !.diag = Append(@, Diag("parse error: expecting", t, i, None))]]
    ELSE [ret |-> ~is_extra(t[i]), v |-> [v EXCEPT !.stack = Push(@, <<>>)]]

enter_node(v, t, i) ==
    IF is_error(t[i])
    THEN [ret |-> FALSE, v |-> [v EXCEPT !.diag = Append(@, Diag("parse error", t, i, None))]]
    ELSE IF is_missing(t[i])
    THEN [ret |-> FALSE,
          v |-> [v EXCEPT !.diag = Append(@, Diag("parse error: expecting", t, i, None))]]
    ELSE IF is_extra(t[i])
    THEN [ret |-> FALSE, v |-> v]
    ELSE [ret |-> TRUE, v |-> [v EXCEPT !.stack = Push(@, <<>>)]]

\* The declared field that map holds under `name` (its position in fields), 0 if
\* none: map.insert replaces an earlier field of the same name.
MapField(fields, name) ==
    LET hits == {k \in 1..Len(fields) : fields[k].name = name}
    IN IF hits = {} THEN 0 ELSE Max(hits)

Ids(cs) == [k \in 1..Len(cs) |-> cs[k].id]

\* Not extract: a child is pushed to the field of its name whatever its type.
AcceptedByName(schema, fields, c) == MapField(fields, c.field) # 0

\* A child triple is pushed to the values of the field of its name.
Accepted(schema, fields, c) ==
    /\ MapField(fields, c.field) # 0
    /\ type_matches(schema, c.type, fields[MapField(fields, c.field)].types)

\* map.get(name).1 after the loop over child_nodes.
Bucket(schema, fields, child_nodes, name) ==
    LET In(c) == c.field = name /\ Accepted(schema, fields, c)
    IN Ids(SelectSeq(child_nodes, In))

FieldOrChild(name) == IF name = None THEN "child" ELSE name[1]

\* Not extract: a mismatch is printed for the unnamed field as well.
ChildDiagAnyField(schema, t, i, fields, c) ==
    IF MapField(fields, c.field) # 0
    THEN IF type_matches(schema, c.type, fields[MapField(fields, c.field)].types)
         THEN <<>>
         ELSE << Diag("type mismatch for field", t, i, <<FieldOrChild(c.field), c.type>>) >>
    ELSE IF c.field # None \/ c.type.named
         THEN << Diag("value for unknown field", t, i, <<FieldOrChild(c.field), c.type>>) >>
         ELSE <<>>

\* What the loop over child_nodes prints for one child.
ChildDiag(schema, t, i, fields, c) ==
    IF MapField(fields, c.field) # 0
    THEN IF type_matches(schema, c.type, fields[MapField(fields, c.field)].types)
         THEN <<>>
         ELSE IF fields[MapField(fields, c.field)].name # None
              THEN << Diag("type mismatch for field", t, i,
                           <<FieldOrChild(c.field), c.type>>) >>
              ELSE <<>>
    ELSE IF c.field # None \/ c.type.named
         THEN << Diag("value for unknown field", t, i, <<FieldOrChild(c.field), c.type>>) >>
         ELSE <<>>

RECURSIVE ChildDiags(_, _, _, _, _)
ChildDiags(schema, t, i, fields, child_nodes) ==
    IF child_nodes = <<>> THEN <<>>
    ELSE ChildDiag(schema, t, i, fields, Head(child_nodes))
         \o ChildDiags(schema, t, i, fields, Tail(child_nodes))

\* Storage::Column: one reference argument, or the node is not valid.
ColumnStep(acc, t, i, field, child_ids) ==
    IF Len(child_ids) = 1
    THEN [acc EXCEPT !.args = Append(@, ArgLabel(child_ids[1]))]
    ELSE [acc EXCEPT !.is_valid = FALSE,
                     !.diag = Append(@, Diag(IF child_ids = <<>> THEN "missing value for field"
                                             ELSE "too many values for field",
                                             t, i, <<FieldOrChild(field.name)>>))]

\* Not extract: the ChildOf entries are put in front of the stream.
TableStepInFront(acc, field, child_ids, parent_id) ==
    [acc EXCEPT !.trap_output =
        [k \in 1..Len(child_ids) |->
            ChildOf(node_type_name(field.storage.parent.kind, field.storage.parent.named),
                    parent_id, FieldOrChild(field.name), field.storage.index,
                    child_ids[k])] \o @]

\* Not extract: a ChildOf entry for the first child id only.
TableStepFirst(acc, field, child_ids, parent_id) ==
    IF child_ids = <<>> THEN acc
    ELSE [acc EXCEPT !.trap_output =
             Append(@, ChildOf(node_type_name(field.storage.parent.kind,
                                              field.storage.parent.named),
                               parent_id, FieldOrChild(field.name), field.storage.index,
                               child_ids[1]))]

\* Storage::Table: one ChildOf entry per child id.
TableStep(acc, field, child_ids, parent_id) ==
    [acc EXCEPT !.trap_output =
        @ \o [k \in 1..Len(child_ids) |->
                 ChildOf(node_type_name(field.storage.parent.kind, field.storage.parent.named),
                         parent_id, FieldOrChild(field.name), field.storage.index,
                         child_ids[k])]]

FieldStep(acc, schema, t, i, fields, child_nodes, parent_id, field) ==
    IF field.storage.tag = "Column"
    THEN ColumnStep(acc, t, i, field, Bucket(schema, fields, child_nodes, field.name))
    ELSE TableStep(acc, field, Bucket(schema, fields, child_nodes, field.name), parent_id)

\* Not extract: the loop over fields, last field first.
RECURSIVE FieldLoopBackwards(_, _, _, _, _, _, _, _)
FieldLoopBackwards(acc, schema, t, i, fields, child_nodes, parent_id, k) ==
    IF k > Len(fields) THEN acc
    ELSE FieldLoopBackwards(FieldStep(acc, schema, t, i, fields, child_nodes, parent_id,
                                      fields[Len(fields) + 1 - k]),
                            schema, t, i, fields, child_nodes, parent_id, k + 1)

\* The loop over fields, from field k on.
RECURSIVE FieldLoop(_, _, _, _, _, _, _, _)
FieldLoop(acc, schema, t, i, fields, child_nodes, parent_id, k) ==
    IF k > Len(fields) THEN acc
    ELSE FieldLoop(FieldStep(acc, schema, t, i, fields, child_nodes, parent_id, fields[k]),
                   schema, t, i, fields, child_nodes, parent_id, k + 1)

\* [args |-> Some(args) or None, v |-> the visitor afterwards]
complex_node(v, schema, t, i, fields, child_nodes, parent_id) ==
    LET acc0 == [args |-> <<>>, is_valid |-> TRUE, trap_output |-> v.trap_output,
                 diag |-> v.diag \o ChildDiags(schema, t, i, fields, child_nodes)]
    IN The({ [args |-> IF acc.is_valid THEN Some(acc.args) ELSE None,
              v |-> [v EXCEPT !.trap_output = acc.trap_output, !.diag = acc.diag]] :
             acc \in {FieldLoop(acc0, schema, t, i, fields, child_nodes, parent_id, 1)} })

\* Not extract: the counter is left as it is.
StaleCounter(counter) == counter

\* self.counter += 1
FreshCounter(counter) == counter + 1

\* Not extract: the location entry is pushed before the two labels.
AllocateLocationFirst(v, t, i, path) ==
    LET c == FreshCounter(v.counter)
    IN [v EXCEPT !.counter = c,
                 !.trap_output = @ \o << location_for(path, Location(c), t, i),
                                        New(Normal(c)), New(Location(c)) >>]

\* The three entries every node with a table gets: its two labels and its location.
Allocate(v, t, i, path) ==
    LET c == FreshCounter(v.counter)
    IN [v EXCEPT !.counter = c,
                 !.trap_output = @ \o << New(Normal(c)), New(Location(c)),
                                        location_for(path, Location(c), t, i) >>]

\* Not extract: the Definition is pushed twice.
EmitDefinitionTwice(v, t, i, args) ==
    IF args = None THEN v
    ELSE [v EXCEPT !.trap_output =
             @ \o << Definition(node_type_name(t[i].kind, t[i].named),
                                Normal(v.counter), args[1], Location(v.counter)),
                     Definition(node_type_name(t[i].kind, t[i].named),
                                Normal(v.counter), args[1], Location(v.counter)) >>]

\* if let Some(args) = args { push Definition }
EmitDefinition(v, t, i, args) ==
    IF args = None THEN v
    ELSE [v EXCEPT !.trap_output =
             Append(@, Definition(node_type_name(t[i].kind, t[i].named),
                                  Normal(v.counter), args[1], Location(v.counter)))]

\* Not extract: the triple is appended only after a Definition was pushed.
AppendToParentIfDefined(v, t, i) ==
    IF v.stack = <<>> \/ v.trap_output[Len(v.trap_output)].tag # "Definition" THEN v
    ELSE [v EXCEPT !.stack[Len(v.stack)] =
             Append(@, [field |-> field_name(t, i), id |-> Normal(v.counter),
                        type |-> NodeType(t[i])])]

\* if let Some(parent) = self.stack.last_mut() { parent.push(..) }
AppendToParent(v, t, i) ==
    IF v.stack = <<>> THEN v
    ELSE [v EXCEPT !.stack[Len(v.stack)] =
             Append(@, [field |-> field_name(t, i), id |-> Normal(v.counter),
                        type |-> NodeType(t[i])])]

\* The branch of leave_node for a node whose type has a table.
LeaveTable(v, schema, src, path, t, i, fields, child_nodes) ==
    The({ IF fields = <<>>
          THEN The({ IF arg = None
                     THEN [v1 EXCEPT !.panic = "Failed to decode string"]
                     ELSE The({ AppendToParent(v2, t, i) :
                                v2 \in {EmitDefinition(v1, t, i, Some(<<arg[1]>>))} }) :
                     arg \in {sliced_source_arg(src, t, i)} })
          ELSE The({ The({ AppendToParent(v2, t, i) :
                           v2 \in {EmitDefinition(r.v, t, i, r.args)} }) :
                     r \in {complex_node(v1, schema, t, i, fields, child_nodes,
                                         Normal(v1.counter))} }) :
          v1 \in {Allocate(v, t, i, path)} })

leave_node(v, schema, src, path, t, i) ==
    IF is_extra(t[i]) \/ is_error(t[i]) \/ is_missing(t[i]) THEN v
    ELSE IF v.stack = <<>> THEN [v EXCEPT !.panic = "Vistor: empty stack"]
    ELSE LET child_nodes == Last(v.stack)
             v1 == [v EXCEPT !.stack = Pop(@)]
         IN The({ IF table # None
                  THEN LeaveTable(v1, schema, src, path, t, i, table[1].fields, child_nodes)
                  ELSE [v1 EXCEPT !.diag = Append(@, Diag("unknown table type", t, i, None))] :
                  table \in {build_schema_lookup(schema, NodeType(t[i]))} })

(***************************************************************************)
(* Inputs of extract                                                       *)
(***************************************************************************)
path == "f.rb"

\* A source of n distinct ASCII bytes: "abc...".
AsciiSource(n) == [k \in 1..n |-> 96 + k]

\* Bytes of sources that may fail to decode: 'a', and the two bytes of U+00E9.
Bytes == {97, 195, 169}

Input(t, src) == [tree |-> t, source |-> src]

NarrowSchemas ==
    {SchemaOf(<<Field(None, {TExpr}, st)>>) : st \in {Column, StorageTable(TPair, 0)}}

(***************************************************************************)
(* State                                                                   *)
(***************************************************************************)
VARIABLES
    mode,         \* which inputs the run draws: "single", "multi", "bytes", "walk", "types", "names"
    schema,       \* Extractor.schema
    calls,        \* the number of calls of extract so far
    saved,        \* None, or Some of an earlier call's input and the Program it returned
    pc,           \* "idle", "loop" (inside traverse), "done" (Ok(Program)), "panic"
    tree,         \* the tree the parser returned for the current call
    source,       \* the bytes of the file of the current call
    cursor,       \* traverse: the node the cursor is at
    recurse,      \* traverse: recurse
    trap_output,  \* Visitor.trap_output
    counter,      \* Visitor.counter
    stack,        \* Visitor.stack
    diag,         \* the lines the current call has printed
    events,       \* history: the calls so far, i for enter_node(i), -i for leave_node(i)
    frames,       \* history: for each frame of stack, the node whose enter_node pushed it
    owner,        \* history: the nodes that were given a label, with the label's number
    probe         \* None, or the last call of a function on its own, with what it returned

vars == << mode, schema, calls, saved, pc, tree, source, cursor, recurse,
           trap_output, counter, stack, diag, events, frames, owner, probe >>

CallLimit == IF mode = "multi" THEN MaxExtracts ELSE 1
RootShapesOf(m) == IF m \in {"single", "walk"} THEN RootShapes ELSE NarrowRootShapes
ChildShapesOf(m) ==
    IF m = "single" THEN ChildShapes
    ELSE IF m = "bytes" THEN NarrowChildShapes
    ELSE IF m = "walk" THEN WalkChildShapes
    ELSE PlainChildShapes

\* Only the table of p declares fields: a tree with no node of kind p is
\* extracted alike under every schema of Schemas, and is drawn under one.
Relevant(m, sch, t) ==
    (m = "single" /\ sch # SchemaOf(<<ColumnU>>)) => \E i \in 1..Len(t) : t[i].kind = TPair.kind
SourcesOf(m, n) == IF m = "bytes" THEN [1..n -> Bytes] ELSE {AsciiSource(n)}

InitIn(m, schemas) ==
    /\ mode = m
    /\ schema \in schemas
    /\ calls = 0
    /\ saved = None
    /\ pc = "idle"
    /\ tree = <<>>
    /\ source = <<>>
    /\ cursor = 0
    /\ recurse = FALSE
    /\ trap_output = <<>>
    /\ counter = -1
    /\ stack = <<>>
    /\ diag = <<>>
    /\ events = <<>>
    /\ frames = <<>>
    /\ owner = <<>>
    /\ probe = None

Init == InitIn("single", Schemas)
InitMulti == InitIn("multi", NarrowSchemas)
InitBytes == InitIn("bytes", NarrowSchemas)
InitWalk == InitIn("walk", NarrowSchemas)

VisitorNow ==
    [trap_output |-> trap_output, counter |-> counter, stack |-> stack, diag |-> diag,
     panic |-> ""]

\* Not extract: the Visitor goes on from the counter of the call before.
CarriedCounter(previous) == previous

\* counter: -1 in the Visitor that extract builds.
InitialCounter(previous) == -1

NewVisitor(previous) ==
    [trap_output |-> << Comment("Auto-generated TRAP file for " \o path) >>,
     counter |-> InitialCounter(previous), stack |-> <<>>, diag |-> <<>>, panic |-> ""]

Install(v) ==
    /\ trap_output' = v.trap_output
    /\ counter' = v.counter
    /\ stack' = v.stack
    /\ diag' = v.diag

Entered(i) == i
Left(i) == 0 - i

\* The history variables after enter_node(i) took the stack from `before` to `after`.
FramesAfterEnter(fr, before, after, i) ==
    IF Len(after) > Len(before) THEN Append(fr, i) ELSE fr
FramesAfterLeave(fr, before, after) ==
    IF Len(after) < Len(before) THEN Pop(fr) ELSE fr

\* leave_node(i) took trap_output from `before` to `after`: when the first entry
\* it pushed is a New, node i was given that label.
OwnerAfterLeave(ow, before, after, i) ==
    IF Len(after) > Len(before) /\ after[Len(before) + 1].tag = "New"
    THEN Append(ow, [node |-> i, n |-> after[Len(before) + 1].id.n])
    ELSE ow

(***************************************************************************)
(* Extractor::extract and traverse                                         *)
(***************************************************************************)
\* extract, up to the first line of traverse: read and parse the file, build the
\* Visitor, enter the root (whatever enter_node returns) and set recurse.
Extract(inp, keep) ==
    /\ LET r == enter_node(NewVisitor(counter), inp.tree, 1)
       IN /\ Install(r.v)
          /\ frames' = FramesAfterEnter(<<>>, <<>>, r.v.stack, 1)
    /\ tree' = inp.tree
    /\ source' = inp.source
    /\ cursor' = 1
    /\ recurse' = TRUE
    /\ pc' = "loop"
    /\ calls' = calls + 1
    /\ saved' = IF keep /\ pc = "done" /\ saved = None
                THEN Some([call |-> calls, tree |-> tree, source |-> source, out |-> trap_output])
                ELSE saved
    /\ events' = << Entered(1) >>
    /\ owner' = <<>>
    /\ UNCHANGED << mode, schema, probe >>

\* Not traverse: the cursor goes down whenever there is a child.
DescendAlways(rec, child) == child # 0

\* if recurse && cursor.goto_first_child(): child is 0 when the move fails.
ShouldDescend(rec, child) == rec /\ child # 0

\* recurse after cursor.goto_parent()
RecurseAfterParent == FALSE

\* One turn of the loop, first branch.
Descend ==
    /\ pc = "loop"
    /\ ShouldDescend(recurse, goto_first_child(tree, cursor))
    /\ LET c == goto_first_child(tree, cursor)
           r == enter_node(VisitorNow, tree, c)
       IN /\ Install(r.v)
          /\ cursor' = c
          /\ recurse' = r.ret
          /\ events' = Append(events, Entered(c))
          /\ frames' = FramesAfterEnter(frames, stack, r.v.stack, c)
    /\ UNCHANGED << mode, schema, calls, saved, pc, tree, source, owner, probe >>

\* One turn of the loop, second branch: leave the node, then move to the next
\* sibling (and enter it), or to the parent, or break and return the Program.
Leave ==
    /\ pc = "loop"
    /\ ~ShouldDescend(recurse, goto_first_child(tree, cursor))
    /\ \E v1 \in {leave_node(VisitorNow, schema, source, path, tree, cursor)} :
       LET sib == goto_next_sibling(tree, cursor)
           par == goto_parent(tree, cursor)
           ev1 == Append(events, Left(cursor))
           fr1 == FramesAfterLeave(frames, stack, v1.stack)
       IN /\ events' = IF v1.panic = "" /\ sib # 0 THEN Append(ev1, Entered(sib)) ELSE ev1
          /\ owner' = OwnerAfterLeave(owner, trap_output, v1.trap_output, cursor)
          /\ IF v1.panic # ""
             THEN /\ Install(v1)
                  /\ frames' = fr1
                  /\ pc' = "panic"
                  /\ UNCHANGED << cursor, recurse >>
             ELSE IF sib # 0
             THEN \E r \in {enter_node(v1, tree, sib)} :
                     /\ Install(r.v)
                     /\ frames' = FramesAfterEnter(fr1, v1.stack, r.v.stack, sib)
                     /\ cursor' = sib
                     /\ recurse' = r.ret
                     /\ pc' = "loop"
             ELSE IF par # 0
             THEN /\ Install(v1)
                  /\ frames' = fr1
                  /\ cursor' = par
                  /\ recurse' = RecurseAfterParent
                  /\ pc' = "loop"
             ELSE /\ Install(v1)
                  /\ frames' = fr1
                  /\ pc' = "done"
                  /\ UNCHANGED << cursor, recurse >>
    /\ UNCHANGED << mode, schema, calls, saved, tree, source, probe >>

Next ==
    \/ /\ pc \in {"idle", "done"}
       /\ calls < CallLimit
       /\ \E n \in 1..MaxNodes, keep \in (IF pc = "done" /\ saved = None THEN BOOLEAN ELSE {FALSE}) :
             \E par \in ParentVectors(n), r \in RootShapesOf(mode),
                rest \in [2..n -> ChildShapesOf(mode)], src \in SourcesOf(mode, n) :
                 /\ WellFormed(MakeTree(n, par, r, rest))
                 /\ Relevant(mode, schema, MakeTree(n, par, r, rest))
                 /\ Extract(Input(MakeTree(n, par, r, rest), src), keep)
    \/ Descend
    \/ Leave

\* Schemas of unions only, over the types t1 .. tMaxTypes: the members of a
\* union come later in this order than the union, so no union reaches itself.
TypeNames == << "t1", "t2", "t3", "t4", "t5", "t6" >>
TypeUniverse == {TypeName(TypeNames[k], TRUE) : k \in 1..MaxTypes}
MemberChoices == SUBSET {e \in (1..MaxTypes) \X (1..MaxTypes) : e[1] < e[2]}
UnionSchema(m) ==
    LET all == [k \in 1..MaxTypes |->
                   EntryUnion(TypeName(TypeNames[k], TRUE),
                              {TypeName(TypeNames[e[2]], TRUE) : e \in {d \in m : d[1] = k}})]
        IsUnion(e) == e.members # {}
    IN SelectSeq(all, IsUnion)
UnionSchemas == {UnionSchema(m) : m \in MemberChoices}

InitTypes == InitIn("types", UnionSchemas)

\* self.type_matches(tp, types), called on its own.
TypeMatches(tp, types) ==
    /\ probe' = [fn |-> "type_matches", tp |-> tp, types |-> types,
                 ret |-> type_matches(schema, tp, types)]
    /\ UNCHANGED << mode, schema, calls, saved, pc, tree, source, cursor, recurse,
                    trap_output, counter, stack, diag, events, frames, owner >>

NextTypes ==
    /\ probe = None
    /\ \E tp \in TypeUniverse, types \in SUBSET TypeUniverse : TypeMatches(tp, types)

\* Raw names of at most MaxNameLen characters: letters of both cases, an
\* underscore, a punctuation character, and among them the reserved word "of".
NameChars == {"a", "A", "t", "o", "f", "_", "@"}
RECURSIVE NamesOfLen(_)
NamesOfLen(n) == IF n = 0 THEN {""} ELSE {w \o c : w \in NamesOfLen(n - 1), c \in NameChars}
Names == UNION {NamesOfLen(n) : n \in 0..MaxNameLen}

InitNames == InitIn("names", {<<>>})

\* escape_name called on two names.
EscapeNames(a, b) ==
    /\ probe' = [fn |-> "escape_name", a |-> a, b |-> b,
                 ra |-> escape_name(a), rb |-> escape_name(b)]
    /\ UNCHANGED << mode, schema, calls, saved, pc, tree, source, cursor, recurse,
                    trap_output, counter, stack, diag, events, frames, owner >>

NextNames ==
    /\ probe = None
    /\ \E a \in Names, b \in Names : EscapeNames(a, b)

\* The caller of extract formats the Program that extract returned.
Display ==
    /\ pc = "done"
    /\ probe = None
    /\ probe' = [fn |-> "fmt", lines |-> ProgramLines(trap_output),
                 text |-> ProgramFmt(trap_output)]
    /\ UNCHANGED << mode, schema, calls, saved, pc, tree, source, cursor, recurse,
                    trap_output, counter, stack, diag, events, frames, owner >>

NextDisplay == Next \/ Display
SpecDisplay == Init /\ [][NextDisplay]_vars

Spec == Init /\ [][Next]_vars
SpecMulti == InitMulti /\ [][Next]_vars
SpecBytes == InitBytes /\ [][Next]_vars
SpecTypes == InitTypes /\ [][NextTypes]_vars
SpecNames == InitNames /\ [][NextNames]_vars
\* Once extract has called traverse, its loop keeps turning: nothing but the
\* loop's own exits stops it.
FairSpec == InitWalk /\ [][Next]_vars /\ WF_vars(Descend \/ Leave)

(***************************************************************************)
(* Vocabulary of the properties                                            *)
(***************************************************************************)
Range(f) == {f[x] : x \in DOMAIN f}

\* The positions of the entries of trap_output with the given tag.
Facts(tag) == {k \in 1..Len(trap_output) : trap_output[k].tag = tag}

Nodes == 1..Len(tree)
Labelled == {owner[k].node : k \in 1..Len(owner)}
IdOf(i) == owner[CHOOSE k \in 1..Len(owner) : owner[k].node = i].n
NodesOf(n) == {owner[k].node : k \in {j \in 1..Len(owner) : owner[j].n = n}}

Skipped(i) == tree[i].status # "ok"
TableEntries(i) ==
    {k \in 1..Len(schema) : schema[k].tag = "Table" /\ schema[k].type_name = NodeType(tree[i])}
HasTable(i) == ~Skipped(i) /\ TableEntries(i) # {}
UnknownKind(i) == ~Skipped(i) /\ TableEntries(i) = {}
FieldsOf(i) == schema[CHOOSE k \in TableEntries(i) : TRUE].fields
ProperAncestors(i) == {a \in Nodes : a # i /\ i \in Descendants(tree, a)}
WasLeft(i) == \E k \in 1..Len(events) : events[k] = Left(i)
WasEntered(i) == \E k \in 1..Len(events) : events[k] = Entered(i)

\* The types a set of types covers, directly or through unions.
RECURSIVE UnionClosure(_, _)
UnionClosure(sch, S) ==
    LET more == UNION {sch[k].members :
                          k \in {j \in 1..Len(sch) : sch[j].tag = "Union" /\ sch[j].type_name \in S}}
    IN IF more \subseteq S THEN S ELSE UnionClosure(sch, S \cup more)
Satisfies(tp, types) == tp \in UnionClosure(schema, types)

ColumnsOf(fields) == LET IsColumn(f) == f.storage.tag = "Column" IN SelectSeq(fields, IsColumn)

\* The children of node i that have a table, came under the name of field f
\* and satisfy its types.
Matching(i, f) ==
    {c \in Children(tree, i) :
        HasTable(c) /\ tree[c].field = f.name /\ Satisfies(NodeType(tree[c]), f.types)}

ArityFails(i) ==
    /\ HasTable(i)
    /\ \E k \in 1..Len(FieldsOf(i)) :
          FieldsOf(i)[k].storage.tag = "Column" /\ Cardinality(Matching(i, FieldsOf(i)[k])) # 1

Triple(i) == [field |-> tree[i].field, id |-> Normal(IdOf(i)), type |-> NodeType(tree[i])]

(***************************************************************************)
(* Properties                                                              *)
(***************************************************************************)

\* C1: label uniqueness.  Within one extraction no two nodes that were given
\* labels share a label number (so neither a Normal nor a Location label), and
\* no New entry for a label occurs twice in trap_output.
C1_LabelUniqueness ==
    /\ \A j, k \in 1..Len(owner) : j # k => owner[j].n # owner[k].n
    /\ \A j, k \in Facts("New") : j # k => trap_output[j].id # trap_output[k].id

C1_Witness == pc = "done" /\ Len(owner) >= 3

\* C2: a Definition of a node whose table declares fields has one Label
\* argument per Column field of the table, and the argument for a field is the
\* label of a child of the node whose type the field's types cover, directly
\* or through unions.
C2_ColumnArguments ==
    \A k \in Facts("Definition") :
        \A i \in NodesOf(trap_output[k].id.n) :
            (HasTable(i) /\ FieldsOf(i) # <<>>) =>
                LET cols == ColumnsOf(FieldsOf(i))
                    args == trap_output[k].args
                IN /\ Len(args) = Len(cols)
                   /\ \A a \in 1..Len(args) :
                         /\ args[a].k = "Label"
                         /\ args[a].v.ns = "Normal"
                         /\ \E c \in Children(tree, i) \cap Labelled :
                               /\ IdOf(c) = args[a].v.n
                               /\ Satisfies(NodeType(tree[c]), cols[a].types)

\* A row with two reference arguments, one of them a p taken as an _expr
\* through the union _sub.
C2_Witness ==
    \E k \in Facts("Definition") :
        /\ Len(trap_output[k].args) = 2
        /\ \E i \in NodesOf(trap_output[k].id.n) :
              /\ FieldsOf(i) # <<>>
              /\ \E c \in Children(tree, i) \cap Labelled :
                    /\ NodeType(tree[c]) = TPair
                    /\ ArgLabel(Normal(IdOf(c))) \in Range(trap_output[k].args)

\* C3: no node that is an error or a missing token, the root included, and no
\* descendant of such a node is given a label (and so none has a New, Located,
\* Definition or ChildOf entry).
C3_ErrorSubtreesExcluded ==
    \A k \in 1..Len(owner) :
        \A a \in Nodes :
            (is_error(tree[a]) \/ is_missing(tree[a])) => owner[k].node \notin Descendants(tree, a)

\* C4: a node with a Column field whose bucket holds no child or several gets
\* no Definition, but it has its two New entries and its Located entry, and
\* its triple is in the frame of its parent while that frame is on the stack.
C4_ArityFailure ==
    \A k \in 1..Len(owner) :
        LET i == owner[k].node
            n == owner[k].n
        IN ArityFails(i) =>
              /\ \A d \in Facts("Definition") : trap_output[d].id # Normal(n)
              /\ Cardinality({j \in Facts("New") : trap_output[j].id = Normal(n)}) = 1
              /\ Cardinality({j \in Facts("New") : trap_output[j].id = Location(n)}) = 1
              /\ Cardinality({j \in Facts("Located") :
                                 trap_output[j].args[1] = ArgLabel(Location(n))}) = 1
              /\ \A s \in 1..Len(frames) :
                    frames[s] = tree[i].parent =>
                        /\ s <= Len(stack)
                        /\ \E e \in 1..Len(stack[s]) : stack[s][e] = Triple(i)

\* A node has failed for a missing value and its triple is in the frame of
\* its parent.
C4_Witness ==
    \E k \in 1..Len(owner) :
        /\ ArityFails(owner[k].node)
        /\ \E d \in 1..Len(diag) : diag[d].msg = "missing value for field"
        /\ \E s \in 1..Len(frames) :
              /\ frames[s] = tree[owner[k].node].parent
              /\ Triple(owner[k].node) \in Range(stack[s])

\* C5: a node of a kind without a table gets no label; no triple of a frame
\* stands for it, so every id of a ChildOf entry is the label of a node with a
\* table; and once it has been left, the entries of its labelled descendants
\* are still in trap_output.
C5_UnknownKind ==
    /\ \A k \in 1..Len(owner) : ~UnknownKind(owner[k].node)
    /\ \A s \in 1..Len(stack) :
          \A e \in 1..Len(stack[s]) :
              /\ s <= Len(frames)
              /\ \E c \in Children(tree, frames[s]) \cap Labelled :
                    HasTable(c) /\ stack[s][e] = Triple(c)
    /\ \A j \in Facts("ChildOf") :
          /\ \E i \in NodesOf(trap_output[j].id.n) : HasTable(i)
          /\ \E i \in NodesOf(trap_output[j].p.n) : HasTable(i)
    /\ \A u \in Nodes :
          (UnknownKind(u) /\ WasLeft(u)) =>
              /\ \E d \in 1..Len(diag) : diag[d].msg = "unknown table type"
              /\ \A d \in (Descendants(tree, u) \cap Labelled) :
                    /\ New(Normal(IdOf(d))) \in Range(trap_output)
                    /\ New(Location(IdOf(d))) \in Range(trap_output)
                    /\ \E j \in Facts("Located") :
                          trap_output[j].args[1] = ArgLabel(Location(IdOf(d)))
                    /\ (HasTable(d) /\ FieldsOf(d) = <<>>) =>
                          \E j \in Facts("Definition") : trap_output[j].id = Normal(IdOf(d))

\* The root has a table with fields and a child of unknown kind, which has a
\* labelled child of its own; the run is over.
C5_Witness ==
    /\ pc = "done"
    /\ HasTable(1) /\ FieldsOf(1) # <<>>
    /\ \E u \in Children(tree, 1) :
          /\ UnknownKind(u)
          /\ \E d \in Children(tree, u) :
                d \in Labelled /\ \E j \in Facts("Definition") : trap_output[j].id = Normal(IdOf(d))

\* C6: for a labelled node whose table declares fields and for each Table
\* field of it, the ChildOf entries with the node's id, the field's name and
\* index are as many as the node's children that came under the field's name
\* with a type the field covers; and the node has a Definition unless a Column
\* field of it failed.
C6_TableFields ==
    \A k \in 1..Len(owner) :
        LET i == owner[k].node
            n == owner[k].n
        IN (HasTable(i) /\ FieldsOf(i) # <<>>) =>
              /\ \A f \in 1..Len(FieldsOf(i)) :
                    LET fld == FieldsOf(i)[f]
                    IN fld.storage.tag = "Table" =>
                          Cardinality({j \in Facts("ChildOf") :
                                          /\ trap_output[j].id = Normal(n)
                                          /\ trap_output[j].fname = FieldOrChild(fld.name)
                                          /\ trap_output[j].idx = fld.storage.index})
                              = Cardinality(Matching(i, fld))
              /\ ~ArityFails(i) => \E j \in Facts("Definition") : trap_output[j].id = Normal(n)

\* A node with two ChildOf entries under one field and none under another,
\* and with a Definition.
C6_Witness ==
    \E k \in 1..Len(owner) :
        LET i == owner[k].node
        IN /\ HasTable(i)
           /\ Len(FieldsOf(i)) = 2
           /\ FieldsOf(i)[1].storage.tag = "Table" /\ Matching(i, FieldsOf(i)[1]) = {}
           /\ FieldsOf(i)[2].storage.tag = "Table" /\ Cardinality(Matching(i, FieldsOf(i)[2])) = 2
           /\ Cardinality({j \in Facts("ChildOf") : trap_output[j].id = Normal(owner[k].n)}) = 2
           /\ \E j \in Facts("Definition") : trap_output[j].id = Normal(owner[k].n)

\* C7: traverse ends; no node is entered or left twice, a node is left only
\* after it was entered and after its entered children were left; and when
\* traverse has ended, every node without an error, missing or extra proper
\* ancestor was entered and left, and has its label if it has a table: so also
\* the siblings that follow a skipped node.
C7_Visits ==
    /\ \A i \in Nodes :
          /\ Cardinality({k \in 1..Len(events) : events[k] = Entered(i)}) <= 1
          /\ Cardinality({k \in 1..Len(events) : events[k] = Left(i)}) <= 1
          /\ \A k \in 1..Len(events) :
                events[k] = Left(i) =>
                    /\ \E j \in 1..(k - 1) : events[j] = Entered(i)
                    /\ \A c \in Children(tree, i) :
                          WasEntered(c) => \E j \in 1..(k - 1) : events[j] = Left(c)
    /\ pc = "done" =>
          \A i \in Nodes :
              (\A a \in ProperAncestors(i) : ~Skipped(a)) =>
                  /\ WasEntered(i)
                  /\ WasLeft(i)
                  /\ HasTable(i) => i \in Labelled

C7_Traverse == []C7_Visits /\ ((pc = "loop") ~> (pc = "done"))

\* The run is over and a node that follows a skipped sibling has its label.
C7_Witness ==
    /\ pc = "done"
    /\ \E i, j \in Nodes :
          /\ tree[i].parent = tree[j].parent
          /\ i < j
          /\ is_error(tree[i])
          /\ ~Skipped(tree[i].parent)
          /\ j \in Labelled

\* C8 as claimed: when the run is over, every node that is not an error, not
\* missing and not extra and whose table declares no fields has a Definition
\* whose only argument is the string of the source bytes of its range.
C8_EveryLeafHasRow ==
    pc \in {"done", "panic"} =>
        \A i \in Nodes :
            (HasTable(i) /\ FieldsOf(i) = <<>>) =>
                /\ i \in Labelled
                /\ \E j \in Facts("Definition") :
                      /\ trap_output[j].id = Normal(IdOf(i))
                      /\ trap_output[j].args
                           = << ArgString(SubSeq(source, start_byte(tree, i) + 1, end_byte(tree, i))) >>

\* C8 as amended: every such node that traverse has left, and whose bytes are
\* valid UTF-8, has exactly one Definition, whose only argument is the string
\* of the bytes of its range, with or without children; where the bytes are
\* not valid UTF-8 the node has no Definition and extract has panicked.
C8_LeafRows ==
    \A i \in Nodes :
        (HasTable(i) /\ FieldsOf(i) = <<>> /\ WasLeft(i)) =>
            LET bytes == SubSeq(source, start_byte(tree, i) + 1, end_byte(tree, i))
                rows == {j \in Facts("Definition") : trap_output[j].id = Normal(IdOf(i))}
            IN /\ i \in Labelled
               /\ IF ValidUtf8(bytes)
                  THEN /\ Cardinality(rows) = 1
                       /\ \A j \in rows :
                             /\ trap_output[j].args = << ArgString(bytes) >>
                             /\ trap_output[j].loc = Location(IdOf(i))
                  ELSE rows = {} /\ pc = "panic"

\* The run is over; a node with no fields and with a child has a row whose
\* string holds a two-byte character.
C8_Witness ==
    /\ pc = "done"
    /\ \E i \in Nodes :
          /\ HasTable(i) /\ FieldsOf(i) = <<>> /\ Children(tree, i) # {}
          /\ \E j \in Facts("Definition") :
                /\ trap_output[j].id = Normal(IdOf(i))
                /\ Len(trap_output[j].args[1].v) >= 2
                /\ 195 \in Range(trap_output[j].args[1].v)

\* C9: a call of extract returns what an earlier call on the same tree and
\* bytes returned, whatever was extracted in between; and in every call the
\* New entries of Normal labels carry 0, 1, 2, ... in this order.
NormalNews == SelectSeq(trap_output, LAMBDA e : e.tag = "New" /\ e.id.ns = "Normal")

C9_Deterministic ==
    /\ (pc = "done" /\ saved # None /\ saved[1].tree = tree /\ saved[1].source = source)
          => saved[1].out = trap_output
    /\ \A k \in 1..Len(NormalNews) : NormalNews[k].id.n = k - 1

\* The third call has returned, on the input of the first call, and both gave
\* out labels.
C9_Witness ==
    /\ pc = "done"
    /\ calls = 3
    /\ saved # None /\ saved[1].call = 1 /\ saved[1].tree = tree
    /\ Len(owner) >= 2

\* C10: the arguments of a Definition follow the declaration order of the
\* Column fields (the k-th argument is a child that came under the name of the
\* k-th Column field); the ChildOf entries of one node are in the order of
\* its fields and, within a field, in the document order of the children.
FieldPos(i, e) ==
    CHOOSE f \in 1..Len(FieldsOf(i)) :
        /\ FieldsOf(i)[f].storage.tag = "Table"
        /\ FieldOrChild(FieldsOf(i)[f].name) = e.fname
        /\ FieldsOf(i)[f].storage.index = e.idx

C10_Order ==
    /\ \A k \in Facts("Definition") :
          \A i \in NodesOf(trap_output[k].id.n) :
              (HasTable(i) /\ FieldsOf(i) # <<>>) =>
                  \A a \in 1..Len(trap_output[k].args) :
                      /\ a <= Len(ColumnsOf(FieldsOf(i)))
                      /\ \E c \in Children(tree, i) \cap Labelled :
                            /\ trap_output[k].args[a] = ArgLabel(Normal(IdOf(c)))
                            /\ tree[c].field = ColumnsOf(FieldsOf(i))[a].name
    /\ \A j1, j2 \in Facts("ChildOf") :
          (j1 < j2 /\ trap_output[j1].id = trap_output[j2].id) =>
              \A i \in NodesOf(trap_output[j1].id.n) :
                  LET p1 == FieldPos(i, trap_output[j1])
                      p2 == FieldPos(i, trap_output[j2])
                  IN /\ p1 <= p2
                     /\ p1 = p2 =>
                           \A c1 \in NodesOf(trap_output[j1].p.n), c2 \in NodesOf(trap_output[j2].p.n) :
                               c1 < c2

\* A row whose two arguments are in the opposite order of the children; and,
\* under another schema, ChildOf entries whose children are in the opposite
\* order of the entries.
C10_Witness ==
    \/ \E k \in Facts("Definition") :
          /\ Len(trap_output[k].args) = 2
          /\ trap_output[k].args[1].v.n > trap_output[k].args[2].v.n
    \/ \E j1, j2 \in Facts("ChildOf") :
          /\ j1 < j2
          /\ trap_output[j1].id = trap_output[j2].id
          /\ trap_output[j1].p.n > trap_output[j2].p.n

\* C11: in a schema whose unions do not reach themselves, type_matches(tp,
\* types) returns (so it ends) and returns TRUE exactly when tp is in types or
\* is reached from a member of types by going from a union to one of its
\* members any number of times (UnionClosure is the set of the types so
\* reached).
C11_TypeMatchesIsReachability ==
    (probe # None /\ probe.fn = "type_matches") =>
        probe.ret = (probe.tp \in UnionClosure(schema, probe.types))

\* A call that returned TRUE for a type that is neither among the types asked
\* for nor a member of a union among them: it is two unions away or more.
C11_Witness ==
    /\ probe # None /\ probe.fn = "type_matches"
    /\ probe.ret
    /\ probe.tp \notin probe.types
    /\ \A k \in 1..Len(schema) :
          schema[k].type_name \in probe.types => probe.tp \notin schema[k].members
    /\ Len(schema) >= 2

\* C12: the stream is append-only.  Every step of traverse (a call of
\* enter_node, or a call of leave_node with the complex_node inside it and the
\* enter_node that follows it) leaves the entries that trap_output already
\* holds where they are and as they are, and only adds entries at the end.
C12_AppendOnly ==
    [][pc = "loop" =>
          /\ Len(trap_output') >= Len(trap_output)
          /\ SubSeq(trap_output', 1, Len(trap_output)) = trap_output]_vars

\* The run is over and the steps have added the entries of two nodes and a
\* ChildOf entry to the stream.
C12_Witness ==
    /\ pc = "done"
    /\ Facts("ChildOf") # {}
    /\ Cardinality(Facts("Definition")) >= 2

\* C13 as claimed: a failure to decode the bytes of a node whose table has no
\* fields comes back to the caller of extract as a result; extract does not
\* panic.
C13_DecodeFailureIsReturned ==
    \A i \in Nodes :
        (/\ HasTable(i) /\ FieldsOf(i) = <<>> /\ WasLeft(i)
         /\ ~ValidUtf8(SubSeq(source, start_byte(tree, i) + 1, end_byte(tree, i))))
            => pc # "panic"

\* C15 as claimed: escape_name gives distinct results for distinct raw names.
C15_EscapeNameCollisionFree ==
    (probe # None /\ probe.fn = "escape_name" /\ probe.a # probe.b) => probe.ra # probe.rb

(***************************************************************************)
(* C14: each ChildOf entry of the Program is displayed as                  *)
(* <table>_<field>(#id, index, #parentId): the first argument is the label *)
(* of the child, the middle one the index of the field, the last one the   *)
(* label of the parent whose table declares the field.                     *)
(***************************************************************************)
ChildLinkText(i, f, c) ==
    escape_name(node_type_name(f.storage.parent.kind, f.storage.parent.named) \o "_"
                    \o (IF f.name = None THEN "child" ELSE f.name[1]))
        \o "(#" \o ToString(IdOf(c)) \o ", " \o ToString(f.storage.index)
        \o ", #" \o ToString(IdOf(i)) \o ")\n"

C14_ChildLinkRendering ==
    (probe # None /\ probe.fn = "fmt") =>
        \A j \in Facts("ChildOf") :
            \E i \in Labelled, c \in Labelled :
                /\ HasTable(i)
                /\ c \in Children(tree, i)
                /\ \E k \in 1..Len(FieldsOf(i)) :
                      /\ FieldsOf(i)[k].storage.tag = "Table"
                      /\ probe.lines[j] = ChildLinkText(i, FieldsOf(i)[k], c)

(***************************************************************************)
(* C16: the stack holds one frame for each node that enter_node accepted   *)
(* (not an error, missing or extra node) and leave_node has not left yet,   *)
(* in the order they were entered.  leave_node never finds the stack empty, *)
(* the frame on top when an accepted node is left is the one that node's   *)
(* enter_node pushed, a frame holds children of its node only, and the     *)
(* stack is empty when traverse returns, whatever the root is.             *)
(***************************************************************************)
Open == {i \in Nodes : ~Skipped(i) /\ WasEntered(i) /\ ~WasLeft(i)}

C16_StackDiscipline ==
    /\ pc # "panic"
    /\ pc \in {"loop", "done"} =>
          /\ Len(stack) = Len(frames)
          /\ Range(frames) = Open
          /\ Len(stack) = Cardinality(Open)
          /\ \A k1, k2 \in 1..Len(frames) : k1 < k2 => frames[k2] \in Descendants(tree, frames[k1])
          /\ \A k \in 1..Len(stack) : \A e \in Range(stack[k]) :
                \E c \in Children(tree, frames[k]) \cap Labelled : WasLeft(c) /\ e = Triple(c)
          /\ (pc = "loop" /\ ~Skipped(cursor)) => (frames # <<>> /\ Last(frames) = cursor)
          /\ (pc = "loop" /\ Skipped(cursor)) => cursor \notin Range(frames)
          /\ pc = "done" => stack = <<>>

\* traverse has returned for a tree whose root is an error, missing or extra
\* node and under it a node was accepted, got its frame and was left.
C16_Witness ==
    /\ pc = "done"
    /\ Skipped(1)
    /\ stack = <<>>
    /\ \E c \in Nodes : ~Skipped(c) /\ WasEntered(c) /\ WasLeft(c)
    /\ \E c \in Nodes : c # 1 /\ Skipped(c) /\ WasLeft(c)

(***************************************************************************)
(* C17: complex_node sorts the children of a node.  A child is pushed to   *)
(* the values of a field exactly when a declared field has the child's     *)
(* field name and the child's type satisfies the field's types.  A child   *)
(* whose type does not satisfy them is dropped, with a line printed when   *)
(* the field has a name and none when it has not.  A child for which no    *)
(* field is declared is dropped, with a line printed when it has a field   *)
(* name or a named type and none otherwise.  A dropped child is in no      *)
(* argument of the parent's Definition and in no ChildOf entry of it.      *)
(***************************************************************************)
\* The nodes that complex_node was called for, and the children whose triples
\* it was given.
Sorted == {i \in Nodes : HasTable(i) /\ WasLeft(i) /\ FieldsOf(i) # <<>>}
Given(i) == Children(tree, i) \cap Labelled
DeclaredFor(i, c) == {k \in 1..Len(FieldsOf(i)) : FieldsOf(i)[k].name = tree[c].field}
InBucket(i, c) ==
    \E k \in DeclaredFor(i, c) : Satisfies(NodeType(tree[c]), FieldsOf(i)[k].types)
Line(msg, i, c) ==
    [msg |-> msg, row |-> start_position(tree, i).row, kind |-> tree[i].kind,
     detail |-> << IF tree[c].field = None THEN "child" ELSE tree[c].field[1],
                   NodeType(tree[c]) >>]
\* The lines that are due for child c of node i.
Due(i, c) ==
    IF DeclaredFor(i, c) # {}
    THEN IF ~InBucket(i, c) /\ tree[c].field # None
         THEN {Line("type mismatch for field", i, c)} ELSE {}
    ELSE IF tree[c].field # None \/ tree[c].named
         THEN {Line("value for unknown field", i, c)} ELSE {}
SortingMsgs == {"type mismatch for field", "value for unknown field"}
Printed(d) == {k \in 1..Len(diag) : diag[k].msg = d.msg /\ diag[k] = d}
Pairs == UNION {{<<i, c>> : c \in Given(i)} : i \in Sorted}
LinksOf(i, c) ==
    {j \in Facts("ChildOf") :
        trap_output[j].id = Normal(IdOf(i)) /\ trap_output[j].p = Normal(IdOf(c))}
ArgsOf(i, c) ==
    {j \in Facts("Definition") :
        /\ trap_output[j].id = Normal(IdOf(i))
        /\ ArgLabel(Normal(IdOf(c))) \in Range(trap_output[j].args)}

C17_ChildClassification ==
    pc \in {"loop", "done"} =>
        \A P \in {Pairs} : \A D \in {[pr \in P |-> Due(pr[1], pr[2])]} :
            /\ \A k \in 1..Len(diag) :
                  diag[k].msg \in SortingMsgs => \E pr \in P : diag[k] \in D[pr]
            /\ \A pr \in P : \A d \in D[pr] :
                  Cardinality(Printed(d)) = Cardinality({qr \in P : d \in D[qr]})
            /\ \A pr \in P :
                  LET i == pr[1]
                      c == pr[2]
                  IN IF InBucket(i, c)
                     THEN \A k \in DeclaredFor(i, c) :
                             IF FieldsOf(i)[k].storage.tag = "Table"
                             THEN Cardinality(LinksOf(i, c)) = 1 /\ ArgsOf(i, c) = {}
                             ELSE /\ LinksOf(i, c) = {}
                                  /\ ArgsOf(i, c) # {} <=> ~ArityFails(i)
                     ELSE LinksOf(i, c) = {} /\ ArgsOf(i, c) = {}

\* A node was left with two children dropped for their types: one under the
\* named field, with its line printed, one under the unnamed field, with none.
C17_Witness ==
    /\ pc = "done"
    /\ \E i \in Sorted : \E c1, c2 \in Given(i) :
          /\ DeclaredFor(i, c1) # {} /\ ~InBucket(i, c1) /\ tree[c1].field # None
          /\ Printed(Line("type mismatch for field", i, c1)) # {}
          /\ DeclaredFor(i, c2) # {} /\ ~InBucket(i, c2) /\ tree[c2].field = None
          /\ Due(i, c2) = {}
          /\ Len(diag) = 1

(***************************************************************************)
(* C18: at every point of an extraction, each label in a Located,          *)
(* Definition or ChildOf entry of trap_output (the id and the location of  *)
(* a row, a reference argument, the two ids of a ChildOf entry, the label  *)
(* of a location) is the id of a New entry at an earlier position.         *)
(***************************************************************************)
LabelArgs(args) == {args[k].v : k \in {n \in 1..Len(args) : args[n].k = "Label"}}
Uses(e) ==
    CASE e.tag = "Located" -> LabelArgs(e.args)
      [] e.tag = "Definition" -> {e.id, e.loc} \cup LabelArgs(e.args)
      [] e.tag = "ChildOf" -> {e.id, e.p}
      [] OTHER -> {}

C18_DeclareBeforeUse ==
    \A j \in 1..Len(trap_output) : \A l \in Uses(trap_output[j]) :
        \E k \in 1..(j - 1) : trap_output[k].tag = "New" /\ trap_output[k].id = l

\* The stream of a finished extraction holds a Located entry, a Definition with
\* a reference argument and a ChildOf entry.
C18_Witness ==
    /\ pc = "done"
    /\ Facts("Located") # {}
    /\ Facts("ChildOf") # {}
    /\ \E j \in Facts("Definition") : LabelArgs(trap_output[j].args) # {}

(***************************************************************************)
(* C19: when no node that was visited fails the arity of a Column field,   *)
(* then in the Program that extract returns both ids of every ChildOf      *)
(* entry and every reference argument of a Definition are the label of one *)
(* node, which has a table (it is no error, missing or extra node and no   *)
(* node of unknown kind), exactly one Definition and exactly one Located   *)
(* entry.                                                                  *)
(***************************************************************************)
References ==
    UNION {{trap_output[j].id, trap_output[j].p} : j \in Facts("ChildOf")}
        \cup UNION {LabelArgs(trap_output[j].args) : j \in Facts("Definition")}
RowsOf(n) == {j \in Facts("Definition") : trap_output[j].id = Normal(n)}
LocationsOf(n) == {j \in Facts("Located") : trap_output[j].args[1] = ArgLabel(Location(n))}

C19_ReferentialIntegrity ==
    (pc = "done" /\ \A i \in Nodes : WasLeft(i) => ~ArityFails(i)) =>
        \A l \in References :
            /\ l.ns = "Normal"
            /\ Cardinality(NodesOf(l.n)) = 1
            /\ \A i \in NodesOf(l.n) : HasTable(i) /\ WasLeft(i)
            /\ Cardinality(RowsOf(l.n)) = 1
            /\ Cardinality(LocationsOf(l.n)) = 1

\* A Program with a ChildOf entry, returned for a tree where no arity fails and
\* a child of the root is of unknown kind or an error, missing or extra node.
C19_Witness ==
    /\ pc = "done"
    /\ \A i \in Nodes : WasLeft(i) => ~ArityFails(i)
    /\ Facts("ChildOf") # {}
    /\ \E c \in Children(tree, 1) : Skipped(c) \/ UnknownKind(c)

====
